---- MODULE Spec2Model ----
(***************************************************************************)
(* A model of the mika tracker: the announce handler (src/announce.go),    *)
(* its helpers (src/unnamed/part_000) and the memory backed stores         *)
(* (src/store/memory/memory.go).                                           *)
(*                                                                         *)
(* Go slices are modelled as sequences.  A slice header stored in a map    *)
(* keeps its length until the map entry is reassigned, while the elements  *)
(* of its backing array can be rewritten through any other header: this is *)
(* what PeerStore.Delete and PeerStore.Reap rely on, and it is modelled    *)
(* by RemoveInPlace below.                                                 *)
(***************************************************************************)
EXTENDS Integers, Sequences, FiniteSets, TLC

\* ------------------------------------------------------------------ bounds
MaxSwarm == 3
MaxCount == 2
MaxList == 3
SmallSwarm == 2
MaxTime == 2
QueueCap == 1
NumHandlers == 2

\* ------------------------------------------------------- program constants
STOPPED == 0
STARTED == 1
COMPLETED == 2
ANNOUNCE == 3

MSG_INVALID_PEER_ID == 151
MSG_INFO_HASH_NOT_FOUND == 200
MSG_GENERIC_ERROR == 900
StatusOK == 200

\* config peer_ttl: a peer is expired when last_announce + peer_ttl < now
PeerTTL == 1

\* config.AnnInterval, config.AnnIntervalMin
AnnInterval == 2
AnnIntervalMin == 1

\* ------------------------------------------------------------ input sets
InfoHashes == {"ihA", "ihB"}
PeerIDs == {<<"A", "Z", "1">>, <<"A", "Z", "2">>, <<"X", "X", "1">>}
Lefts == {0, 1}
NumWants == {0, 30}
Times == 0..MaxTime
Handlers == 1..NumHandlers

\* model.Peer, restricted to the fields the announce path and the store read
PeerRecords == [PeerID : PeerIDs, Left : Lefts, AnnounceLast : Times, Active : BOOLEAN]

\* a query parameter: q.Params[key], a string (a sequence of characters) when
\* the key exists
NoParam == [exists |-> FALSE, str |-> <<>>]
Param(str) == [exists |-> TRUE, str |-> str]

\* the port parameters tried: absent, empty, not an unsigned integer, and the
\* numbers around the two limits
PortParams ==
    {NoParam, Param(<<>>), Param(<<"x">>), Param(<<"-", "1">>), Param(<<"8", "0", "a">>),
     Param(<<"8", "0">>), Param(<<"1", "0", "2", "3">>), Param(<<"1", "0", "2", "4">>),
     Param(<<"6", "8", "8", "1">>), Param(<<"6", "5", "5", "3", "5">>),
     Param(<<"6", "5", "5", "3", "6">>)}

\* the raw query of an announce: the event parameter ("" when absent), the
\* port parameter, and the parameters NewAnnounce copies unchanged; every
\* other parameter NewAnnounce requires is present and well formed
EventNames == {"", "started", "stopped", "completed", "complete"}
Queries ==
    [event : EventNames, info_hash : InfoHashes, peer_id : PeerIDs,
     port : {Param(<<"6", "8", "8", "1">>), Param(<<"8", "0">>)},
     left : Lefts, numwant : NumWants]

VARIABLES
    peers,          \* PeerStore.peers: map InfoHash -> Swarm (a slice of Peer)
    now,            \* the clock read by unixtime() and Peer.Expired()
    reaped,         \* the store and the time the last call was a Reap of, if it was one
    users,          \* the passkeys GetUser finds
    whitelist,      \* the client prefixes IsValidClient reads (HKEYS t:whitelist)
    Torrents,       \* mika.Torrents: InfoHash -> the shared Torrent (Seeders, Leechers)
    redisPeers,     \* the set behind torrent.TorrentPeersKey, per torrent
    redisInactive,  \* the peer hashes whose "active" field was set to 0
    redisUser,      \* the per-user sets KeyUserActive/Incomplete/Complete/HNR
    sync_peer,      \* the channels the handler sends to
    sync_torrent,
    sync_user,
    pc,             \* per handler: the position inside HandleAnnounce
    ann,            \* per handler: the AnnounceRequest
    passkey,        \* per handler: c.Param("passkey")
    peer,           \* per handler: the peer GetPeer returned
    resp,           \* per handler: what was written to the client
    post,           \* per handler: PeerCounts right after its own add or remove
    query,          \* per handler: the raw query NewAnnounce parsed
    hkeysErr,       \* per handler: HKEYS t:whitelist returned an error
    peerErr,        \* per handler: torrent.GetPeer returned an error
    torrents,       \* TorrentStore.torrents: map InfoHash -> Torrent
    tsPending,      \* per caller: the torrent of an Add between its RUnlock and its Lock
    tsOut,          \* the *model.Torrent the callers of TorrentStore.Get pass
    tsLast,         \* the last TorrentStore call that returned, and the store it acted on
    ustore,         \* UserStore.users: map passkey -> User
    usOut,          \* the *model.User the callers of the UserStore lookups pass
    usLast,         \* the UserStore lookup that returned last, if the last call was one
    tsWhitelist,    \* TorrentStore.whitelist: the slice header and its backing array
    wlSnap,         \* the slice a caller got from WhiteListGetAll, and what it read in it
    wlLast,         \* the last WhiteListDelete that returned, and the list it acted on
    snapN           \* the slice a caller got from PeerStore.GetN, and what it read in it

storeVars == <<peers, now>>
requestVars == <<query, hkeysErr, peerErr>>
listVars == <<tsWhitelist, wlSnap, wlLast>>
auxVars == <<listVars, snapN>>
memVars == <<torrents, tsPending, tsOut, tsLast, ustore, usOut, usLast, auxVars>>
\* what the steps after the parse and the PeerStore leave alone
registryVars == <<users, whitelist, requestVars, memVars>>
redisVars == <<redisPeers, redisInactive, redisUser>>
queueVars == <<sync_peer, sync_torrent, sync_user>>
handlerVars == <<pc, ann, passkey, peer, resp, post>>
vars == <<peers, now, reaped, users, whitelist, Torrents, redisPeers, redisInactive, redisUser,
          sync_peer, sync_torrent, sync_user, pc, ann, passkey, peer, resp, post,
          query, hkeysErr, peerErr, torrents, tsPending, tsOut, tsLast, ustore, usOut, usLast,
          tsWhitelist, wlSnap, wlLast, snapN>>

\* ------------------------------------------------------------- PeerStore

\* ps.peers[ih]: a missing key reads as the nil slice
SwarmOf(ps, ih) == IF ih \in DOMAIN ps THEN ps[ih] ELSE <<>>

\* the index Swarm.Remove stops at: the last i with peers[i].PeerID = p, 0 if none
RemoveIndex(swarm, p) ==
    LET hits == {i \in 1..Len(swarm) : swarm[i].PeerID = p}
    IN IF hits = {} THEN 0 ELSE CHOOSE i \in hits : \A j \in hits : j <= i

\* Swarm.Remove: the slice it returns, append(peers[:i], peers[i+1:]...)
Remove(swarm, p) ==
    LET i == RemoveIndex(swarm, p)
    IN IF i = 0 THEN swarm
       ELSE SubSeq(swarm, 1, i - 1) \o SubSeq(swarm, i + 1, Len(swarm))

\* What a caller that drops Remove's result sees through its own slice header:
\* the header keeps its length, the append has shifted the tail one place left
\* inside the shared backing array, and the last slot keeps its old element.
RemoveInPlace(swarm, p) ==
    LET r == Remove(swarm, p)
    IN [k \in 1..Len(swarm) |-> IF k <= Len(r) THEN r[k] ELSE swarm[k]]

\* PeerStore.Add: ps.peers[ih] = append(ps.peers[ih], p)
Add(ps, ih, p) ==
    [k \in (DOMAIN ps) \cup {ih} |-> IF k = ih THEN Append(SwarmOf(ps, ih), p) ELSE ps[k]]

\* PeerStore.Delete: ps.peers[ih].Remove(p), the returned slice is dropped
Delete(ps, ih, p) ==
    IF ih \in DOMAIN ps THEN [ps EXCEPT ![ih] = RemoveInPlace(ps[ih], p)] ELSE ps

\* Peer.Expired
Expired(p, t) == p.AnnounceLast + PeerTTL < t

\* the inner loop of Reap over one swarm: `for _, peer := range swarm` reads
\* slot idx of the backing array at iteration idx, for the length the slice had
\* when the loop started
RECURSIVE ReapSwarm(_, _, _)
ReapSwarm(swarm, idx, t) ==
    IF idx > Len(swarm) THEN swarm
    ELSE IF Expired(swarm[idx], t)
         THEN ReapSwarm(RemoveInPlace(swarm, swarm[idx].PeerID), idx + 1, t)
         ELSE ReapSwarm(swarm, idx + 1, t)

\* PeerStore.Reap
Reap(ps, t) == [ih \in DOMAIN ps |-> ReapSwarm(ps[ih], 1, t)]

\* model.PeerStats of one peer in a batch: the time of its last announce and
\* the number of announces since the last batch (the traffic deltas are added
\* the way the announces are)
PeerStats == [LastAnnounce : Times, Announces : {1}]

\* the keys of a batch: model.PeerHash, an infohash and a peer id
SyncKeys == {<<"ihA", <<"A", "Z", "1">> >>, <<"ihA", <<"A", "Z", "2">> >>, <<"ihB", <<"A", "Z", "1">> >>}

\* the batches handed to PeerStore.Sync
PeerBatches ==
    {b \in UNION {[keys -> PeerStats] : keys \in SUBSET SyncKeys} : DOMAIN b # {}}

\* the first index of the swarm that holds peer id p, 0 if none
FirstIndex(swarm, p) ==
    LET hits == {i \in 1..Len(swarm) : swarm[i].PeerID = p}
    IN IF hits = {} THEN 0 ELSE CHOOSE i \in hits : \A j \in hits : i <= j

\* PeerStore.Sync: for every key of the batch the first peer of the swarm with
\* that peer id gets the counts added and AnnounceLast set to LastAnnounce
PeerStoreSync(ps, b) ==
    [ih \in DOMAIN ps |->
        [i \in 1..Len(ps[ih]) |->
            LET old == ps[ih][i]
                key == <<ih, old.PeerID>>
            IN IF key \in DOMAIN b /\ i = FirstIndex(ps[ih], old.PeerID)
               THEN [old EXCEPT !.Announces = @ + b[key].Announces,
                                !.AnnounceLast = b[key].LastAnnounce]
               ELSE old]]

\* ------------------------------------------------------- announce helpers

\* resp_msg: the error code to message mapping
resp_msg ==
    [code \in {100, 101, 102, 103, 104, 150, 151, 152, 200, 500, 901, 900} |->
        CASE code = 100 -> "Invalid request type"
          [] code = 101 -> "info_hash missing from request"
          [] code = 102 -> "peer_id missing from request"
          [] code = 103 -> "port missing from request"
          [] code = 104 -> "Invalid port"
          [] code = 150 -> "Torrent info hash must be 20 characters"
          [] code = 151 -> "Peer ID Invalid"
          [] code = 152 -> "num_want invalid"
          [] code = 200 -> "info_hash was not found, better luck next time"
          [] code = 500 -> "Slot down there jimmy."
          [] code = 901 -> "Malformed request"
          [] code = 900 -> "Generic Error :("]

\* responseError: the dict that is bencoded
responseError(message) == "failure reason" :> message

\* oops: c.String(msg_code, responseError(resp_msg[msg_code]))
oops(msg_code) == [written |-> TRUE, status |-> msg_code, body |-> responseError(resp_msg[msg_code])]

NoResponse == [written |-> FALSE, status |-> 0, body |-> <<>>]

\* the (nil, error) result of NewAnnounce
NilRequest ==
    [err |-> TRUE, Event |-> ANNOUNCE, InfoHash |-> "ihA", PeerID |-> <<"A", "Z", "1">>,
     Left |-> 0, NumWant |-> 0, Port |-> 0]

\* the value of a decimal digit
DigitValue ==
    [ch \in {"0", "1", "2", "3", "4", "5", "6", "7", "8", "9"} |->
        CASE ch = "0" -> 0 [] ch = "1" -> 1 [] ch = "2" -> 2 [] ch = "3" -> 3 [] ch = "4" -> 4
          [] ch = "5" -> 5 [] ch = "6" -> 6 [] ch = "7" -> 7 [] ch = "8" -> 8 [] ch = "9" -> 9]

\* strconv.ParseUint(str, 10, 64) on a string of digits, most significant first
RECURSIVE ParseDigits(_)
ParseDigits(str) ==
    IF str = <<>> THEN 0
    ELSE 10 * ParseDigits(SubSeq(str, 1, Len(str) - 1)) + DigitValue[str[Len(str)]]

\* q.Uint64(key): an error for a missing key and for a string that is not an
\* unsigned decimal number (empty, a sign, any other character)
Uint64(param) ==
    IF \/ ~param.exists
       \/ param.str = <<>>
       \/ \E k \in 1..Len(param.str) : param.str[k] \notin DOMAIN DigitValue
    THEN [err |-> TRUE, val |-> 0]
    ELSE [err |-> FALSE, val |-> ParseDigits(param.str)]

\* NewAnnounce without the upper limit of the port
NewAnnounce_NoUpperLimit(q) ==
    LET port == Uint64(q.port) IN
    IF port.err \/ port.val < 1024 THEN NilRequest
    ELSE
    [err |-> FALSE,
     Event |-> CASE q.event = "started" -> STARTED
                 [] q.event = "stopped" -> STOPPED
                 [] q.event = "complete" -> COMPLETED
                 [] OTHER -> ANNOUNCE,
     InfoHash |-> q.info_hash,
     PeerID |-> q.peer_id,
     Left |-> q.left,
     NumWant |-> q.numwant,
     Port |-> port.val]

\* NewAnnounce: the event switch and the port check; err is set where the
\* function returns (nil, error)
NewAnnounce(q) ==
    LET port == Uint64(q.port) IN
    IF port.err \/ port.val < 1024 \/ port.val > 65535 THEN NilRequest
    ELSE
    [err |-> FALSE,
     Event |-> CASE q.event = "started" -> STARTED
                 [] q.event = "stopped" -> STOPPED
                 [] q.event = "complete" -> COMPLETED
                 [] OTHER -> ANNOUNCE,
     InfoHash |-> q.info_hash,
     PeerID |-> q.peer_id,
     Left |-> q.left,
     NumWant |-> q.numwant,
     Port |-> port.val]

\* strings.HasPrefix
HasPrefix(s, prefix) == Len(prefix) <= Len(s) /\ SubSeq(s, 1, Len(prefix)) = prefix

\* r.Do("HKEYS", "t:whitelist"): the error, or the keys of the hash
HKEYS(fails, wl) == [err |-> fails, clients |-> IF fails THEN <<>> ELSE wl]

\* IsValidClient that gives up after the first client prefix
IsValidClient_FirstOnly(r, peer_id) ==
    IF r.err THEN FALSE
    ELSE r.clients # <<>> /\ HasPrefix(peer_id, r.clients[1])

\* IsValidClient, on the reply of HKEYS: false when the command failed, true
\* when some whitelisted prefix is a prefix of peer_id
IsValidClient(r, peer_id) ==
    IF r.err THEN FALSE
    ELSE \E i \in 1..Len(r.clients) : HasPrefix(peer_id, r.clients[i])

\* PeerStore.Get: the first peer of the swarm with that PeerID (0: ErrInvalidPeerID)
GetIndex(swarm, peerID) ==
    LET hits == {i \in 1..Len(swarm) : swarm[i].PeerID = peerID}
    IN IF hits = {} THEN 0 ELSE CHOOSE i \in hits : \A j \in hits : i <= j

\* Torrent.GetPeer: the stored peer, or a new one for this peer id
GetPeer(ps, ih, peerID, t) ==
    LET swarm == SwarmOf(ps, ih)
        i == GetIndex(swarm, peerID)
    IN IF i # 0 THEN swarm[i]
       ELSE [PeerID |-> peerID, Left |-> 0, AnnounceLast |-> t, Active |-> FALSE]

\* Torrent.HasPeer
HasPeer(ps, ih, peerID) == GetIndex(SwarmOf(ps, ih), peerID) # 0

\* Torrent.PeerCounts: seeders have nothing left, leechers are the rest
PeerCounts(ps, ih) ==
    LET swarm == SwarmOf(ps, ih)
        seeders == Cardinality({i \in 1..Len(swarm) : swarm[i].Left = 0})
    IN [Seeders |-> seeders, Leechers |-> Len(swarm) - seeders]

\* util.MinInt
MinInt(a, b) == IF a < b THEN a ELSE b

\* GetN that returns the whole swarm
GetN_NoLimit(ps, ih, limit) ==
    IF ih \in DOMAIN ps
    THEN [found |-> TRUE, swarm |-> ps[ih]]
    ELSE [found |-> FALSE, swarm |-> <<>>]

\* PeerStore.GetN: p[0:MinInt(limit, len(p))]; found is false for a missing key
GetN(ps, ih, limit) ==
    IF ih \in DOMAIN ps
    THEN [found |-> TRUE, swarm |-> SubSeq(ps[ih], 1, MinInt(limit, Len(ps[ih])))]
    ELSE [found |-> FALSE, swarm |-> <<>>]

\* makeCompactPeers: the selected peers without the requester, by peer id
RECURSIVE makeCompactPeers(_, _)
makeCompactPeers(swarm, peerID) ==
    IF swarm = <<>> THEN <<>>
    ELSE IF Head(swarm).PeerID = peerID THEN makeCompactPeers(Tail(swarm), peerID)
         ELSE <<Head(swarm).PeerID>> \o makeCompactPeers(Tail(swarm), peerID)

\* the response dict of a successful announce (lines 160-170)
AnnounceDict(t, ps, a) ==
    LET base == [k \in {"complete", "incomplete", "interval", "min interval"} |->
                    CASE k = "complete" -> t.Seeders
                      [] k = "incomplete" -> t.Leechers
                      [] k = "interval" -> AnnInterval
                      [] k = "min interval" -> AnnIntervalMin]
        got == GetN(ps, a.InfoHash, a.NumWant)
    IN IF got.found THEN ("peers" :> makeCompactPeers(got.swarm, a.PeerID)) @@ base ELSE base

NoUserSets == [Active |-> {}, Incomplete |-> {}, Complete |-> {}, HNR |-> {}]

IdleRequest ==
    [err |-> FALSE, Event |-> ANNOUNCE, InfoHash |-> "ihA", PeerID |-> <<"A", "Z", "1">>,
     Left |-> 0, NumWant |-> 0, Port |-> 6881]

IdleQuery ==
    [event |-> "", info_hash |-> "ihA", peer_id |-> <<"A", "Z", "1">>,
     port |-> Param(<<"6", "8", "8", "1">>), left |-> 0, numwant |-> 0]

IdlePeer == [PeerID |-> <<"A", "Z", "1">>, Left |-> 0, AnnounceLast |-> 0, Active |-> FALSE]

NoReap == [done |-> FALSE, before |-> <<>>, at |-> 0]

\* ------------------------------------------------------------ TorrentStore

\* model.Torrent, restricted to the fields the memory store reads; the torrents
\* handed to Add differ in TotalUploaded, to tell two of one infohash apart
TorrentRecords ==
    [InfoHash : InfoHashes, IsDeleted : BOOLEAN, TotalUploaded : {0, 1},
     TotalDownloaded : {0}, TotalCompleted : {0}]

\* the zero value of model.Torrent
ZeroTorrent ==
    [InfoHash |-> "", IsDeleted |-> FALSE, TotalUploaded |-> 0, TotalDownloaded |-> 0,
     TotalCompleted |-> 0]

\* model.TorrentStats of one infohash in a batch
TorrentStats ==
    {[Uploaded |-> 1, Downloaded |-> 0, Snatches |-> 0],
     [Uploaded |-> 1, Downloaded |-> 1, Snatches |-> 1]}

\* the batches handed to TorrentStore.Sync: stats for some of the infohashes
TorrentBatches ==
    {b \in UNION {[keys -> TorrentStats] : keys \in SUBSET InfoHashes} : DOMAIN b # {}}

\* Sync that stores the stats of an infohash without a torrent as a new torrent
TorrentStoreSync_AddsMissing(ts, b) ==
    [ih \in (DOMAIN ts) \cup (DOMAIN b) |->
        IF ih \notin DOMAIN ts
        THEN [ZeroTorrent EXCEPT !.TotalUploaded = b[ih].Uploaded,
                                 !.TotalDownloaded = b[ih].Downloaded,
                                 !.TotalCompleted = b[ih].Snatches]
        ELSE IF ih \in DOMAIN b
        THEN [ts[ih] EXCEPT !.TotalUploaded = @ + b[ih].Uploaded,
                            !.TotalDownloaded = @ + b[ih].Downloaded,
                            !.TotalCompleted = @ + b[ih].Snatches]
        ELSE ts[ih]]

\* TorrentStore.Sync: the stats of an infohash without a torrent are skipped
TorrentStoreSync(ts, b) ==
    [ih \in DOMAIN ts |->
        IF ih \in DOMAIN b
        THEN [ts[ih] EXCEPT !.TotalUploaded = @ + b[ih].Uploaded,
                            !.TotalDownloaded = @ + b[ih].Downloaded,
                            !.TotalCompleted = @ + b[ih].Snatches]
        ELSE ts[ih]]

\* Get without the IsDeleted test
TorrentStoreGet_IgnoresDeleted(ts, torrent, hash) ==
    IF hash \notin DOMAIN ts
    THEN [err |-> "ErrInvalidInfoHash", torrent |-> torrent]
    ELSE [err |-> "nil", torrent |-> ts[hash]]

\* TorrentStore.Get: the error returned and the caller's torrent afterwards
TorrentStoreGet(ts, torrent, hash) ==
    IF hash \notin DOMAIN ts \/ ts[hash].IsDeleted
    THEN [err |-> "ErrInvalidInfoHash", torrent |-> torrent]
    ELSE [err |-> "nil", torrent |-> ts[hash]]

\* TorrentStore.Add, lines 216-218: ts.torrents[t.InfoHash] = t
TorrentStorePut(ts, t) ==
    [k \in (DOMAIN ts) \cup {t.InfoHash} |-> IF k = t.InfoHash THEN t ELSE ts[k]]

\* TorrentStore.Delete: delete(ts.torrents, ih), the flag is not read
TorrentStoreDelete(ts, ih, hard) == [k \in (DOMAIN ts) \ {ih} |-> ts[k]]

NoPending == [busy |-> FALSE, t |-> ZeroTorrent]

NoCall ==
    [op |-> "", ih |-> "", hard |-> FALSE, t |-> ZeroTorrent, err |-> "nil",
     before |-> <<>>, outBefore |-> ZeroTorrent]

\* ------------------------------------------------- TorrentStore.whitelist

\* []model.WhiteListClient{}: no backing array yet; gen counts the arrays
\* allocated, arr is the whole backing array, len the length of the slice
EmptyList == [gen |-> 0, arr |-> <<>>, len |-> 0]

NoListSnap == [taken |-> FALSE, gen |-> 0, len |-> 0, seen |-> <<>>]

NoListCall == [op |-> "", prefix |-> "", err |-> "nil", before |-> <<>>]

\* model.WhiteListClient
ListClients ==
    {[ClientPrefix |-> "AZ", ClientName |-> "n1"], [ClientPrefix |-> "AZ", ClientName |-> "n2"],
     [ClientPrefix |-> "XX", ClientName |-> "n1"]}

\* the zero value of model.WhiteListClient
ZeroClient == [ClientPrefix |-> "", ClientName |-> ""]

\* the elements of the slice
ListView(l) == SubSeq(l.arr, 1, l.len)

\* WhiteListAdd: append(ts.whitelist, client) writes into the backing array
\* when it has room, and otherwise copies the slice into a new array of twice
\* the capacity (capacity 1 for the first)
WhiteListAdd(l, client) ==
    IF l.len < Len(l.arr)
    THEN [l EXCEPT !.arr[l.len + 1] = client, !.len = @ + 1]
    ELSE LET cap == IF Len(l.arr) = 0 THEN 1 ELSE 2 * Len(l.arr)
         IN [gen |-> l.gen + 1,
             arr |-> [k \in 1..cap |-> IF k <= l.len THEN l.arr[k]
                                       ELSE IF k = l.len + 1 THEN client ELSE ZeroClient],
             len |-> l.len + 1]

\* the index WhiteListDelete stops at: the last i with that prefix, 0 if none
LastClientIndex(l, client) ==
    LET hits == {i \in 1..l.len : l.arr[i].ClientPrefix = client.ClientPrefix}
    IN IF hits = {} THEN 0 ELSE CHOOSE i \in hits : \A j \in hits : j <= i

\* WhiteListDelete: append(ts.whitelist[:i], ts.whitelist[i+1:]...) moves the
\* tail one place left inside the backing array and shortens the slice by one
WhiteListDelete(l, client) ==
    LET i == LastClientIndex(l, client)
    IN IF i = 0 THEN [err |-> "ErrInvalidClient", list |-> l]
       ELSE [err |-> "nil",
             list |-> [l EXCEPT !.arr = [k \in 1..Len(l.arr) |->
                                            IF k >= i /\ k < l.len THEN l.arr[k + 1] ELSE l.arr[k]],
                                !.len = @ - 1]]

\* what a caller holds after PeerStore.GetN, if it called it
NoSwarmSnap == [taken |-> FALSE, ih |-> "", len |-> 0, stored |-> 0, seen |-> <<>>]

\* --------------------------------------------------------------- UserStore

\* the zero value of model.User
ZeroUser ==
    [Passkey |-> "", UserID |-> 0, Uploaded |-> 0, Downloaded |-> 0, Announces |-> 0,
     Enabled |-> FALSE]

NoUserCall == [op |-> "", passkey |-> "", userID |-> 0, err |-> "nil", outBefore |-> ZeroUser]

UserPasskeys == {"pk1", "pk2"}
UserIDs == {1, 2, 3}

\* the users handed to UserStore.Add: new ones, one of them disabled, and one
\* whose record carries traffic already
NewUsers ==
    {[Passkey |-> "pk1", UserID |-> 1, Uploaded |-> up, Downloaded |-> 0, Announces |-> 0,
      Enabled |-> en] : up \in {0, 1}, en \in BOOLEAN}
        \cup {[Passkey |-> "pk2", UserID |-> 2, Uploaded |-> 0, Downloaded |-> 0, Announces |-> 0,
                Enabled |-> TRUE]}

\* model.UserStats of one passkey in a batch
UserStats == [Uploaded : {0, 1}, Downloaded : {0, 1}, Announces : {1}]

\* the batches handed to UserStore.Sync: stats for some of the passkeys
UserBatches ==
    {b \in UNION {[keys -> UserStats] : keys \in SUBSET UserPasskeys} : DOMAIN b # {}}

\* UserStore.Sync: the stats of a passkey without a user are skipped
UserStoreSync(us, b) ==
    [pk \in DOMAIN us |->
        IF pk \in DOMAIN b
        THEN [us[pk] EXCEPT !.Announces = @ + b[pk].Announces,
                            !.Downloaded = @ + b[pk].Downloaded,
                            !.Uploaded = @ + b[pk].Uploaded]
        ELSE us[pk]]

\* UserStore.Add: u.users[usr.Passkey] = usr
UserStoreAdd(us, usr) ==
    [pk \in (DOMAIN us) \cup {usr.Passkey} |-> IF pk = usr.Passkey THEN usr ELSE us[pk]]

\* UserStore.Delete: delete(u.users, user.Passkey)
UserStoreDelete(us, pk) == [k \in (DOMAIN us) \ {pk} |-> us[k]]

\* UserStore.GetByPasskey: the error returned and the caller's user afterwards
GetByPasskey(us, usr, pk) ==
    IF pk \notin DOMAIN us
    THEN [err |-> "ErrUnauthorized", usr |-> usr]
    ELSE [err |-> "nil", usr |-> us[pk]]

\* UserStore.GetByID: the map is ranged over in no fixed order, so any user
\* with that id may be the one returned
GetByID(us, user, userID) ==
    IF \E pk \in DOMAIN us : us[pk].UserID = userID
    THEN {[err |-> "nil", usr |-> us[pk]] : pk \in {k \in DOMAIN us : us[k].UserID = userID}}
    ELSE {[err |-> "ErrUnauthorized", usr |-> user]}

\* --------------------------------------------------------------- Init

\* the state after start-up, for the client prefixes stored in t:whitelist
InitWith(wl) ==
    /\ peers = <<>>
    /\ now = 0
    /\ reaped = NoReap
    /\ users = {"pk1"}
    /\ whitelist = wl
    /\ Torrents = [ih \in {"ihA"} |-> [Seeders |-> 0, Leechers |-> 0]]
    /\ redisPeers = [ih \in {"ihA"} |-> {}]
    /\ redisInactive = {}
    /\ redisUser = [u \in {"pk1"} |-> NoUserSets]
    /\ sync_peer = <<>>
    /\ sync_torrent = <<>>
    /\ sync_user = <<>>
    /\ pc = [a \in Handlers |-> "idle"]
    /\ ann = [a \in Handlers |-> IdleRequest]
    /\ passkey = [a \in Handlers |-> "pk1"]
    /\ peer = [a \in Handlers |-> IdlePeer]
    /\ resp = [a \in Handlers |-> NoResponse]
    /\ post = [a \in Handlers |-> [Seeders |-> 0, Leechers |-> 0]]
    /\ query = [a \in Handlers |-> IdleQuery]
    /\ hkeysErr = [a \in Handlers |-> FALSE]
    /\ peerErr = [a \in Handlers |-> FALSE]
    /\ torrents = <<>>
    /\ tsPending = [c \in Handlers |-> NoPending]
    /\ tsOut = ZeroTorrent
    /\ tsLast = NoCall
    /\ ustore = <<>>
    /\ usOut = ZeroUser
    /\ usLast = NoUserCall
    /\ tsWhitelist = EmptyList
    /\ wlSnap = NoListSnap
    /\ wlLast = NoListCall
    /\ snapN = NoSwarmSnap

Init == InitWith(<< <<"A", "Z">> >>)

\* ------------------------------------------------------- HandleAnnounce

\* the handler with sync_user <- user moved above the error check of GetPeer
BeginLookup_SendsBeforeLookup(a, requests, from, failures, lookups) ==
    /\ pc[a] \in from
    /\ \E r \in requests, fails \in failures, lost \in lookups :
        LET q == r[1]
            pk == r[2]
            req == NewAnnounce(q)
            found == /\ ~req.err
                     /\ pk \in users
                     /\ IsValidClient(HKEYS(fails, whitelist), req.PeerID)
                     /\ req.InfoHash \in DOMAIN Torrents
        IN
        /\ ann' = [ann EXCEPT ![a] = req]
        /\ query' = [query EXCEPT ![a] = q]
        /\ hkeysErr' = [hkeysErr EXCEPT ![a] = fails /\ ~req.err /\ pk \in users]
        /\ peerErr' = [peerErr EXCEPT ![a] = lost /\ found]
        /\ sync_user' = IF lost /\ found THEN Append(sync_user, pk) ELSE sync_user
        /\ passkey' = [passkey EXCEPT ![a] = pk]
        /\ post' = [post EXCEPT ![a] = [Seeders |-> 0, Leechers |-> 0]]
        /\ IF req.err
           THEN /\ resp' = [resp EXCEPT ![a] = oops(MSG_GENERIC_ERROR)]
                /\ pc' = [pc EXCEPT ![a] = "done"]
                /\ peer' = [peer EXCEPT ![a] = IdlePeer]
           ELSE IF pk \notin users
           THEN /\ resp' = [resp EXCEPT ![a] = NoResponse]
                /\ pc' = [pc EXCEPT ![a] = "aborted"]
                /\ peer' = [peer EXCEPT ![a] = IdlePeer]
           ELSE IF ~IsValidClient(HKEYS(fails, whitelist), req.PeerID)
           THEN /\ resp' = [resp EXCEPT ![a] = oops(MSG_INVALID_PEER_ID)]
                /\ pc' = [pc EXCEPT ![a] = "done"]
                /\ peer' = [peer EXCEPT ![a] = IdlePeer]
           ELSE IF req.InfoHash \notin DOMAIN Torrents
           THEN /\ resp' = [resp EXCEPT ![a] = oops(MSG_GENERIC_ERROR)]
                /\ pc' = [pc EXCEPT ![a] = "done"]
                /\ peer' = [peer EXCEPT ![a] = IdlePeer]
           ELSE IF lost
           THEN /\ resp' = [resp EXCEPT ![a] = oops(MSG_GENERIC_ERROR)]
                /\ pc' = [pc EXCEPT ![a] = "done"]
                /\ peer' = [peer EXCEPT ![a] = IdlePeer]
           ELSE /\ resp' = [resp EXCEPT ![a] = NoResponse]
                /\ pc' = [pc EXCEPT ![a] = "mutate"]
                /\ peer' = [peer EXCEPT ![a] =
                              [GetPeer(peers, req.InfoHash, req.PeerID, now) EXCEPT !.Left = req.Left]]
    /\ UNCHANGED <<storeVars, reaped, users, whitelist, memVars, Torrents, redisVars,
                   sync_peer, sync_torrent>>

\* Lines 57-101: parse, the lookups, and the Update calls on the
\* handler's own peer.  An unknown passkey reaches CaptureMessage(err.Error())
\* with err = nil (NewAnnounce succeeded): the handler panics there and no
\* response is written.  A GetPeer that returns an error ends the
\* announce with the generic failure (lines 89-94).
BeginLookup(a, requests, from, failures, lookups) ==
    /\ pc[a] \in from
    /\ \E r \in requests, fails \in failures, lost \in lookups :
        LET q == r[1]
            pk == r[2]
            req == NewAnnounce(q)
            found == /\ ~req.err
                     /\ pk \in users
                     /\ IsValidClient(HKEYS(fails, whitelist), req.PeerID)
                     /\ req.InfoHash \in DOMAIN Torrents
        IN
        /\ ann' = [ann EXCEPT ![a] = req]
        /\ query' = [query EXCEPT ![a] = q]
        /\ hkeysErr' = [hkeysErr EXCEPT ![a] = fails /\ ~req.err /\ pk \in users]
        /\ peerErr' = [peerErr EXCEPT ![a] = lost /\ found]
        /\ passkey' = [passkey EXCEPT ![a] = pk]
        /\ post' = [post EXCEPT ![a] = [Seeders |-> 0, Leechers |-> 0]]
        /\ IF req.err
           THEN /\ resp' = [resp EXCEPT ![a] = oops(MSG_GENERIC_ERROR)]
                /\ pc' = [pc EXCEPT ![a] = "done"]
                /\ peer' = [peer EXCEPT ![a] = IdlePeer]
           ELSE IF pk \notin users
           THEN /\ resp' = [resp EXCEPT ![a] = NoResponse]
                /\ pc' = [pc EXCEPT ![a] = "aborted"]
                /\ peer' = [peer EXCEPT ![a] = IdlePeer]
           ELSE IF ~IsValidClient(HKEYS(fails, whitelist), req.PeerID)
           THEN /\ resp' = [resp EXCEPT ![a] = oops(MSG_INVALID_PEER_ID)]
                /\ pc' = [pc EXCEPT ![a] = "done"]
                /\ peer' = [peer EXCEPT ![a] = IdlePeer]
           ELSE IF req.InfoHash \notin DOMAIN Torrents
           THEN /\ resp' = [resp EXCEPT ![a] = oops(MSG_GENERIC_ERROR)]
                /\ pc' = [pc EXCEPT ![a] = "done"]
                /\ peer' = [peer EXCEPT ![a] = IdlePeer]
           ELSE IF lost
           THEN /\ resp' = [resp EXCEPT ![a] = oops(MSG_GENERIC_ERROR)]
                /\ pc' = [pc EXCEPT ![a] = "done"]
                /\ peer' = [peer EXCEPT ![a] = IdlePeer]
           ELSE /\ resp' = [resp EXCEPT ![a] = NoResponse]
                /\ pc' = [pc EXCEPT ![a] = "mutate"]
                /\ peer' = [peer EXCEPT ![a] =
                              [GetPeer(peers, req.InfoHash, req.PeerID, now) EXCEPT !.Left = req.Left]]
    /\ UNCHANGED <<storeVars, reaped, users, whitelist, memVars, Torrents, redisVars, queueVars>>

\* an announce whose GetPeer succeeds
BeginRead(a, requests, from, failures) == BeginLookup(a, requests, from, failures, {FALSE})

\* an announce whose HKEYS succeeds
Begin(a, requests, from) == BeginRead(a, requests, from, {FALSE})

\* Lines 103-109, first call: DelPeer for a stopped announce, HasPeer otherwise
Mutate(a) ==
    /\ pc[a] = "mutate"
    /\ IF ann[a].Event = STOPPED
       THEN /\ peers' = Delete(peers, ann[a].InfoHash, ann[a].PeerID)
            /\ post' = [post EXCEPT ![a] = PeerCounts(peers', ann[a].InfoHash)]
            /\ pc' = [pc EXCEPT ![a] = "flush"]
       ELSE IF HasPeer(peers, ann[a].InfoHash, peer[a].PeerID)
       THEN /\ peers' = peers
            /\ post' = [post EXCEPT ![a] = PeerCounts(peers, ann[a].InfoHash)]
            /\ pc' = [pc EXCEPT ![a] = "flush"]
       ELSE /\ peers' = peers
            /\ post' = post
            /\ pc' = [pc EXCEPT ![a] = "add"]
    /\ reaped' = NoReap
    /\ UNCHANGED <<now, registryVars, Torrents, redisVars, queueVars, ann, passkey, peer, resp>>

\* Line 107: AddPeer, after HasPeer answered false
AddPeer(a, cap) ==
    /\ pc[a] = "add"
    /\ Len(SwarmOf(peers, ann[a].InfoHash)) < cap
    /\ peers' = Add(peers, ann[a].InfoHash, peer[a])
    /\ post' = [post EXCEPT ![a] = PeerCounts(peers', ann[a].InfoHash)]
    /\ pc' = [pc EXCEPT ![a] = "flush"]
    /\ reaped' = NoReap
    /\ UNCHANGED <<now, registryVars, Torrents, redisVars, queueVars, ann, passkey, peer, resp>>

\* Lines 111-151: the pipelined commands, executed at r.Flush()
Flush(a) ==
    /\ pc[a] = "flush"
    /\ LET ih == ann[a].InfoHash
           pid == ann[a].PeerID
           u == passkey[a]
           ev == ann[a].Event
           old == redisUser[u]
       IN /\ redisPeers' = [redisPeers EXCEPT ![ih] = IF ev = STOPPED THEN @ \ {pid} ELSE @ \cup {pid}]
          /\ redisInactive' = IF ev = STOPPED THEN redisInactive \cup {<<ih, pid>>} ELSE redisInactive
          /\ redisUser' = [redisUser EXCEPT ![u] =
                [Active |-> IF ev = STOPPED THEN old.Active \ {ih} ELSE old.Active \cup {ih},
                 Incomplete |-> IF ev = COMPLETED THEN old.Incomplete \ {ih}
                                ELSE IF ev = STARTED THEN old.Incomplete \cup {ih}
                                ELSE old.Incomplete,
                 Complete |-> IF ev = COMPLETED THEN old.Complete \cup {ih} ELSE old.Complete,
                 HNR |-> IF ev = COMPLETED THEN old.HNR \ {ih} ELSE old.HNR]]
          /\ peer' = [peer EXCEPT ![a].Active = IF ev # STOPPED THEN TRUE ELSE @]
    /\ pc' = [pc EXCEPT ![a] = "counts"]
    /\ UNCHANGED <<storeVars, reaped, registryVars, Torrents, queueVars, ann, passkey, resp, post>>

\* Lines 153-154: the shared torrent's Seeders and Leechers are recomputed
Counts(a) ==
    /\ pc[a] = "counts"
    /\ Torrents' = [Torrents EXCEPT ![ann[a].InfoHash] = PeerCounts(peers, ann[a].InfoHash)]
    /\ peer' = [peer EXCEPT ![a].AnnounceLast = now]
    /\ pc' = [pc EXCEPT ![a] = "sync_peer"]
    /\ UNCHANGED <<storeVars, reaped, registryVars, redisVars, queueVars, ann, passkey, resp, post>>

\* Line 156: sync_peer <- peer, a channel send: it waits while the buffer is full
SendPeer(a) ==
    /\ pc[a] = "sync_peer"
    /\ Len(sync_peer) < QueueCap
    /\ sync_peer' = Append(sync_peer, peer[a].PeerID)
    /\ pc' = [pc EXCEPT ![a] = "sync_torrent"]
    /\ UNCHANGED <<storeVars, reaped, registryVars, Torrents, redisVars, sync_torrent, sync_user,
                   ann, passkey, peer, resp, post>>

\* Line 157: sync_torrent <- torrent
SendTorrent(a) ==
    /\ pc[a] = "sync_torrent"
    /\ Len(sync_torrent) < QueueCap
    /\ sync_torrent' = Append(sync_torrent, ann[a].InfoHash)
    /\ pc' = [pc EXCEPT ![a] = "sync_user"]
    /\ UNCHANGED <<storeVars, reaped, registryVars, Torrents, redisVars, sync_peer, sync_user,
                   ann, passkey, peer, resp, post>>

\* Line 158: sync_user <- user
SendUser(a) ==
    /\ pc[a] = "sync_user"
    /\ Len(sync_user) < QueueCap
    /\ sync_user' = Append(sync_user, passkey[a])
    /\ pc' = [pc EXCEPT ![a] = "respond"]
    /\ UNCHANGED <<storeVars, reaped, registryVars, Torrents, redisVars, sync_peer, sync_torrent,
                   ann, passkey, peer, resp, post>>

\* Lines 160-180: the dict is built from the shared torrent's fields and sent
Respond(a) ==
    /\ pc[a] = "respond"
    /\ resp' = [resp EXCEPT ![a] =
                  [written |-> TRUE, status |-> StatusOK,
                   body |-> AnnounceDict(Torrents[ann[a].InfoHash], peers, ann[a])]]
    /\ pc' = [pc EXCEPT ![a] = "done"]
    /\ UNCHANGED <<storeVars, reaped, registryVars, Torrents, redisVars, queueVars, ann, passkey, peer, post>>

\* the worker behind the channels: one receive from each
RecvPeer ==
    /\ sync_peer # <<>>
    /\ sync_peer' = Tail(sync_peer)
    /\ UNCHANGED <<storeVars, reaped, registryVars, Torrents, redisVars, sync_torrent, sync_user, handlerVars>>

RecvTorrent ==
    /\ sync_torrent # <<>>
    /\ sync_torrent' = Tail(sync_torrent)
    /\ UNCHANGED <<storeVars, reaped, registryVars, Torrents, redisVars, sync_peer, sync_user, handlerVars>>

RecvUser ==
    /\ sync_user # <<>>
    /\ sync_user' = Tail(sync_user)
    /\ UNCHANGED <<storeVars, reaped, registryVars, Torrents, redisVars, sync_peer, sync_torrent, handlerVars>>

\* --------------------------------------------------- PeerStore, called directly

\* the peers handed to Add: announced no later than now
StorePeers ==
    {p \in PeerRecords : /\ p.PeerID \in {<<"A", "Z", "1">>, <<"A", "Z", "2">>}
                         /\ p.Left = 1
                         /\ ~p.Active
                         /\ p.AnnounceLast <= now}

PSAddOf(ihs, ps, cap) ==
    /\ \E ih \in ihs, p \in ps :
        /\ Len(SwarmOf(peers, ih)) < cap
        /\ peers' = Add(peers, ih, p)
    /\ reaped' = NoReap
    /\ UNCHANGED <<now, registryVars, Torrents, redisVars, queueVars, handlerVars>>

PSAdd == PSAddOf(InfoHashes, StorePeers, MaxSwarm)

PSDelete ==
    /\ \E ih \in InfoHashes, p \in PeerIDs : peers' = Delete(peers, ih, p)
    /\ reaped' = NoReap
    /\ UNCHANGED <<now, registryVars, Torrents, redisVars, queueVars, handlerVars>>

\* the peers a first announce at the current time creates
SyncPeers ==
    {[PeerID |-> id, Left |-> 1, AnnounceLast |-> now, Active |-> TRUE,
      AnnounceFirst |-> now, Announces |-> 1] : id \in {<<"A", "Z", "1">>, <<"A", "Z", "2">>}}

\* a batch of stats collected up to now; the counts are capped at MaxCount
PSSync ==
    /\ \E b \in PeerBatches :
        /\ \A key \in DOMAIN b : b[key].LastAnnounce <= now
        /\ \A ih \in DOMAIN peers : \A i \in 1..Len(peers[ih]) :
              peers[ih][i].Announces < MaxCount
        /\ peers' = PeerStoreSync(peers, b)
    /\ reaped' = NoReap
    /\ UNCHANGED <<now, registryVars, Torrents, redisVars, queueVars, handlerVars>>

PSReap ==
    /\ peers' = Reap(peers, now)
    /\ reaped' = [done |-> TRUE, before |-> peers, at |-> now]
    /\ UNCHANGED <<now, registryVars, Torrents, redisVars, queueVars, handlerVars>>

Tick ==
    /\ now < MaxTime
    /\ now' = now + 1
    /\ reaped' = NoReap
    /\ UNCHANGED <<peers, registryVars, Torrents, redisVars, queueVars, handlerVars>>

\* ------------------------------------------------ TorrentStore, called directly

\* everything the announce path and the PeerStore own
baseVars ==
    <<storeVars, reaped, users, whitelist, requestVars, Torrents, redisVars, queueVars, handlerVars>>
announceVars == <<baseVars, auxVars>>
userVars == <<ustore, usOut, usLast>>

\* TorrentStore.Add, lines 210-215: the lookup under the read lock; a hit
\* returns ErrDuplicate, a miss goes on to the write lock
TSAddLookup(c) ==
    /\ ~tsPending[c].busy
    /\ \E t \in TorrentRecords :
        IF t.InfoHash \in DOMAIN torrents
        THEN /\ tsLast' = [NoCall EXCEPT !.op = "Add", !.ih = t.InfoHash, !.t = t,
                                         !.err = "ErrDuplicate", !.before = torrents]
             /\ UNCHANGED tsPending
        ELSE /\ tsPending' = [tsPending EXCEPT ![c] = [busy |-> TRUE, t |-> t]]
             /\ UNCHANGED tsLast
    /\ UNCHANGED <<announceVars, userVars, torrents, tsOut>>

\* TorrentStore.Add, lines 216-219: the write under the write lock
TSAddInsert(c) ==
    /\ tsPending[c].busy
    /\ torrents' = TorrentStorePut(torrents, tsPending[c].t)
    /\ tsLast' = [NoCall EXCEPT !.op = "Add", !.ih = tsPending[c].t.InfoHash, !.t = tsPending[c].t,
                                !.err = "nil", !.before = torrents]
    /\ tsPending' = [tsPending EXCEPT ![c] = NoPending]
    /\ UNCHANGED <<announceVars, userVars, tsOut>>

TSGet ==
    /\ \E hash \in InfoHashes :
        LET got == TorrentStoreGet(torrents, tsOut, hash)
        IN /\ tsOut' = got.torrent
           /\ tsLast' = [NoCall EXCEPT !.op = "Get", !.ih = hash, !.err = got.err,
                                       !.before = torrents, !.outBefore = tsOut]
    /\ UNCHANGED <<announceVars, userVars, torrents, tsPending>>

TSDelete ==
    /\ \E ih \in InfoHashes, hard \in BOOLEAN :
        /\ torrents' = TorrentStoreDelete(torrents, ih, hard)
        /\ tsLast' = [NoCall EXCEPT !.op = "Delete", !.ih = ih, !.hard = hard, !.before = torrents]
    /\ UNCHANGED <<announceVars, userVars, tsPending, tsOut>>

\* the totals are capped at MaxCount
TSSync ==
    /\ \E b \in TorrentBatches :
        /\ \A ih \in DOMAIN b \cap DOMAIN torrents :
              /\ torrents[ih].TotalUploaded + b[ih].Uploaded <= MaxCount
              /\ torrents[ih].TotalDownloaded + b[ih].Downloaded <= MaxCount
              /\ torrents[ih].TotalCompleted + b[ih].Snatches <= MaxCount
        /\ torrents' = TorrentStoreSync(torrents, b)
        /\ tsLast' = [NoCall EXCEPT !.op = "Sync", !.before = torrents]
    /\ UNCHANGED <<announceVars, userVars, tsPending, tsOut>>

\* --------------------------------------------------- UserStore, called directly

torrentVars == <<torrents, tsPending, tsOut, tsLast>>

\* the list is capped at MaxList entries
WLAdd ==
    /\ tsWhitelist.len < MaxList
    /\ \E client \in ListClients : tsWhitelist' = WhiteListAdd(tsWhitelist, client)
    /\ wlLast' = NoListCall
    /\ UNCHANGED <<baseVars, torrentVars, userVars, snapN, wlSnap>>

WLDelete ==
    /\ \E client \in ListClients :
        LET del == WhiteListDelete(tsWhitelist, client)
        IN /\ tsWhitelist' = del.list
           /\ wlLast' = [op |-> "Delete", prefix |-> client.ClientPrefix, err |-> del.err,
                         before |-> ListView(tsWhitelist)]
    /\ UNCHANGED <<baseVars, torrentVars, userVars, snapN, wlSnap>>

\* WhiteListGetAll: the caller gets the slice header, not a copy of the array;
\* one result is followed
WLGetAll ==
    /\ ~wlSnap.taken
    /\ wlSnap' = [taken |-> TRUE, gen |-> tsWhitelist.gen, len |-> tsWhitelist.len,
                  seen |-> ListView(tsWhitelist)]
    /\ wlLast' = NoListCall
    /\ UNCHANGED <<baseVars, torrentVars, userVars, snapN, tsWhitelist>>

\* the numbers of peers asked for: none, fewer than a swarm holds, more
SelectLimits == {0, 1, 2, 30}

\* PeerStore.GetN: the caller gets a slice of the swarm's backing array; one
\* result is followed
PSGetN ==
    /\ ~snapN.taken
    /\ \E ih \in InfoHashes, limit \in SelectLimits :
        LET got == GetN(peers, ih, limit)
        IN /\ got.found
           /\ snapN' = [taken |-> TRUE, ih |-> ih, len |-> Len(got.swarm),
                        stored |-> Len(peers[ih]), seen |-> got.swarm]
    /\ UNCHANGED <<baseVars, torrentVars, userVars, listVars>>

USAdd ==
    /\ \E usr \in NewUsers : ustore' = UserStoreAdd(ustore, usr)
    /\ usLast' = NoUserCall
    /\ UNCHANGED <<announceVars, torrentVars, usOut>>

\* the counters are capped at MaxCount
USSync ==
    /\ \E b \in UserBatches :
        /\ \A pk \in DOMAIN b \cap DOMAIN ustore :
              /\ ustore[pk].Announces + b[pk].Announces <= MaxCount
              /\ ustore[pk].Downloaded + b[pk].Downloaded <= MaxCount
              /\ ustore[pk].Uploaded + b[pk].Uploaded <= MaxCount
        /\ ustore' = UserStoreSync(ustore, b)
    /\ usLast' = NoUserCall
    /\ UNCHANGED <<announceVars, torrentVars, usOut>>

USDelete ==
    /\ \E pk \in UserPasskeys : ustore' = UserStoreDelete(ustore, pk)
    /\ usLast' = NoUserCall
    /\ UNCHANGED <<announceVars, torrentVars, usOut>>

USGetByPasskey ==
    /\ \E pk \in UserPasskeys :
        LET got == GetByPasskey(ustore, usOut, pk)
        IN /\ usOut' = got.usr
           /\ usLast' = [NoUserCall EXCEPT !.op = "GetByPasskey", !.passkey = pk, !.err = got.err,
                                           !.outBefore = usOut]
    /\ UNCHANGED <<announceVars, torrentVars, ustore>>

USGetByID ==
    /\ \E id \in UserIDs :
        \E got \in GetByID(ustore, usOut, id) :
           /\ usOut' = got.usr
           /\ usLast' = [NoUserCall EXCEPT !.op = "GetByID", !.userID = id, !.err = got.err,
                                           !.outBefore = usOut]
    /\ UNCHANGED <<announceVars, torrentVars, ustore>>

\* ------------------------------------------------------- specifications

\* the well-formed announces of whitelisted clients on the known torrent
GoodQueries ==
    {q \in Queries : /\ q.info_hash = "ihA"
                     /\ q.port = Param(<<"6", "8", "8", "1">>)
                     /\ IsValidClient(HKEYS(FALSE, << <<"A", "Z">> >>), q.peer_id)}

\* one query for each way an announce is turned down
BadPort ==
    [event |-> "", info_hash |-> "ihA", peer_id |-> <<"A", "Z", "1">>,
     port |-> Param(<<"8", "0">>), left |-> 1, numwant |-> 30]
BadClient == [BadPort EXCEPT !.port = Param(<<"6", "8", "8", "1">>), !.peer_id = <<"X", "X", "1">>]
BadTorrent == [BadPort EXCEPT !.port = Param(<<"6", "8", "8", "1">>), !.info_hash = "ihB"]

\* regular and stopped announces of the known user, the three bad queries, and
\* two announces under an unknown passkey
Requests ==
    ({q \in GoodQueries : q.event \in {"", "stopped"}} \X {"pk1"})
        \cup ({BadPort, BadClient, BadTorrent} \X {"pk1"})
        \cup ({q \in GoodQueries : /\ q.left = 1
                                   /\ q.numwant = 30
                                   /\ q.event \in {"", "stopped"}
                                   /\ q.peer_id = <<"A", "Z", "1">>} \X {"pkX"})

\* a handler may take its next request once the last one has returned
Returned == {"idle", "done", "aborted"}

\* one request at a time
Next ==
    \/ Begin(1, Requests, Returned)
    \/ Mutate(1)
    \/ AddPeer(1, SmallSwarm)
    \/ Flush(1)
    \/ Counts(1)
    \/ SendPeer(1)
    \/ SendTorrent(1)
    \/ SendUser(1)
    \/ Respond(1)
    \/ RecvPeer
    \/ RecvTorrent
    \/ RecvUser

Spec == Init /\ [][Next]_vars

\* peers of one user joining and leaving one torrent, one request at a time
ChurnRequests ==
    {q \in GoodQueries : q.event \in {"started", "stopped"} /\ q.left = 1 /\ q.numwant = 30}
        \X {"pk1"}

NextChurn ==
    \/ Begin(1, ChurnRequests, Returned)
    \/ Mutate(1)
    \/ AddPeer(1, MaxSwarm)
    \/ Flush(1)
    \/ Counts(1)
    \/ SendPeer(1)
    \/ SendTorrent(1)
    \/ SendUser(1)
    \/ Respond(1)
    \/ RecvPeer
    \/ RecvTorrent
    \/ RecvUser

SpecChurn == Init /\ [][NextChurn]_vars

\* concurrent requests: every handler serves one announce
RaceRequests ==
    {q \in GoodQueries : q.event \in {"started", "stopped"} /\ q.numwant = 30} \X {"pk1"}

NextRace ==
    \/ \E a \in Handlers :
        \/ Begin(a, RaceRequests, {"idle"})
        \/ Mutate(a)
        \/ AddPeer(a, MaxSwarm)
        \/ Flush(a)
        \/ Counts(a)
        \/ SendPeer(a)
        \/ SendTorrent(a)
        \/ SendUser(a)
        \/ Respond(a)
    \/ RecvPeer
    \/ RecvTorrent
    \/ RecvUser

SpecRace == Init /\ [][NextRace]_vars

\* the whitelists tried: empty, one prefix, two, a prefix longer than a peer
\* id, and a string that occurs in a peer id but not at its start
WhiteLists ==
    {<<>>,
     << <<"A", "Z">> >>,
     << <<"X", "X">>, <<"A", "Z">> >>,
     << <<"A", "Z", "1", "0">> >>,
     << <<"Z">> >>}

InitClient == \E wl \in WhiteLists : InitWith(wl)

\* announces of the known user for every peer id
ClientRequests ==
    {q \in Queries : /\ q.event = ""
                     /\ q.info_hash = "ihA"
                     /\ q.port = Param(<<"6", "8", "8", "1">>)
                     /\ q.left = 1
                     /\ q.numwant = 30} \X {"pk1"}

\* one request at a time, HKEYS may fail
NextClient ==
    \/ BeginRead(1, ClientRequests, Returned, BOOLEAN)
    \/ Mutate(1)
    \/ AddPeer(1, MaxSwarm)
    \/ Flush(1)
    \/ Counts(1)
    \/ SendPeer(1)
    \/ SendTorrent(1)
    \/ SendUser(1)
    \/ Respond(1)
    \/ RecvPeer
    \/ RecvTorrent
    \/ RecvUser

SpecClient == InitClient /\ [][NextClient]_vars

\* announces of one peer of the known user with every event parameter
EventRequests ==
    {q \in GoodQueries : q.peer_id = <<"A", "Z", "1">> /\ q.numwant = 30} \X {"pk1"}

NextEvents ==
    \/ Begin(1, EventRequests, Returned)
    \/ Mutate(1)
    \/ AddPeer(1, SmallSwarm)
    \/ Flush(1)
    \/ Counts(1)
    \/ SendPeer(1)
    \/ SendTorrent(1)
    \/ SendUser(1)
    \/ Respond(1)
    \/ RecvPeer
    \/ RecvTorrent
    \/ RecvUser

SpecEvents == Init /\ [][NextEvents]_vars


\* regular and stopped announces of the known user's peers, for every limit
SelectRequests ==
    {[q EXCEPT !.numwant = n] : q \in {g \in GoodQueries : /\ g.event \in {"", "stopped"}
                                                           /\ g.left = 1
                                                           /\ g.numwant = 30},
                               n \in SelectLimits} \X {"pk1"}

NextSelect ==
    \/ Begin(1, SelectRequests, Returned)
    \/ Mutate(1)
    \/ AddPeer(1, MaxSwarm)
    \/ Flush(1)
    \/ Counts(1)
    \/ SendPeer(1)
    \/ SendTorrent(1)
    \/ SendUser(1)
    \/ Respond(1)
    \/ RecvPeer
    \/ RecvTorrent
    \/ RecvUser

SpecSelect == Init /\ [][NextSelect]_vars

\* the UserStore driven through its own methods
NextUsers ==
    \/ USAdd
    \/ USSync
    \/ USDelete
    \/ USGetByPasskey
    \/ USGetByID

SpecUsers == Init /\ [][NextUsers]_vars

\* regular announces of the known user's peers with every port parameter
PortRequests ==
    {[q EXCEPT !.port = p] : q \in {g \in GoodQueries : /\ g.event = ""
                                                         /\ g.left = 1
                                                         /\ g.numwant = 30},
                             p \in PortParams} \X {"pk1"}

NextPorts ==
    \/ Begin(1, PortRequests, Returned)
    \/ Mutate(1)
    \/ AddPeer(1, SmallSwarm)
    \/ Flush(1)
    \/ Counts(1)
    \/ SendPeer(1)
    \/ SendTorrent(1)
    \/ SendUser(1)
    \/ Respond(1)
    \/ RecvPeer
    \/ RecvTorrent
    \/ RecvUser

SpecPorts == Init /\ [][NextPorts]_vars

\* first announces and Sync batches on one torrent
NextSync ==
    \/ PSAddOf({"ihA"}, SyncPeers, SmallSwarm)
    \/ PSSync
    \/ Tick

SpecSync == Init /\ [][NextSync]_vars

\* Add and Sync on the TorrentStore or on the UserStore: the two stores share
\* no state, a run drives one of them
UsersUntouched == ustore = <<>>

TorrentsUntouched == torrents = <<>> /\ ~tsPending[1].busy

NextDeltas ==
    \/ UsersUntouched /\ TSAddLookup(1)
    \/ UsersUntouched /\ TSAddInsert(1)
    \/ UsersUntouched /\ TSSync
    \/ TorrentsUntouched /\ USAdd
    \/ TorrentsUntouched /\ USSync

SpecDeltas == Init /\ [][NextDeltas]_vars

\* the whitelist of the TorrentStore driven through its own methods
NextList ==
    \/ WLAdd
    \/ WLDelete

SpecList == Init /\ [][NextList]_vars

\* announces that pass every check, and one that fails each of them: a bad
\* port, an unknown passkey, a client off the whitelist, an unknown torrent
FailRequests ==
    ({q \in GoodQueries : /\ q.event \in {"", "stopped"}
                          /\ q.left = 1
                          /\ q.numwant = 30} \X {"pk1"})
        \cup ({BadPort, BadClient, BadTorrent} \X {"pk1"})
        \cup ({BadClient} \X {"pkX"})

\* one request at a time; GetPeer may fail
NextFail ==
    \/ BeginLookup(1, FailRequests, Returned, {FALSE}, BOOLEAN)
    \/ Mutate(1)
    \/ AddPeer(1, SmallSwarm)
    \/ Flush(1)
    \/ Counts(1)
    \/ SendPeer(1)
    \/ SendTorrent(1)
    \/ SendUser(1)
    \/ Respond(1)
    \/ RecvPeer
    \/ RecvTorrent
    \/ RecvUser

SpecFail == Init /\ [][NextFail]_vars

\* a caller keeps the result of one read while the store it came from is
\* written to; the two stores share no state and are driven one per run
PeersUntouched == peers = <<>> /\ now = 0 /\ reaped = NoReap

ListUntouched == tsWhitelist = EmptyList /\ ~wlSnap.taken /\ wlLast = NoListCall

NextSnap ==
    \/ PeersUntouched /\ WLAdd
    \/ PeersUntouched /\ WLDelete
    \/ PeersUntouched /\ WLGetAll
    \/ ListUntouched /\ PSAddOf({"ihA"}, SyncPeers, SmallSwarm)
    \/ ListUntouched /\ PSSync
    \/ ListUntouched /\ PSDelete
    \/ ListUntouched /\ PSReap
    \/ ListUntouched /\ PSGetN
    \/ ListUntouched /\ Tick

SpecSnap == Init /\ [][NextSnap]_vars

\* the PeerStore driven through its own methods
NextStore ==
    \/ PSAdd
    \/ PSDelete
    \/ PSReap
    \/ Tick

SpecStore == Init /\ [][NextStore]_vars

\* the TorrentStore driven through its own methods, one call at a time
NextTorrents ==
    \/ TSAddLookup(1)
    \/ TSAddInsert(1)
    \/ TSGet
    \/ TSDelete

SpecTorrents == Init /\ [][NextTorrents]_vars

\* the same with concurrent callers
NextTorrentRace ==
    \/ \E c \in Handlers :
        \/ TSAddLookup(c)
        \/ TSAddInsert(c)
    \/ TSGet
    \/ TSDelete

SpecTorrentRace == Init /\ [][NextTorrentRace]_vars

\* ------------------------------------------------------------- claims

\* an announce that went through all five checks and was answered
Succeeded(a) == pc[a] = "done" /\ resp[a].written /\ "complete" \in DOMAIN resp[a].body

\* C1: an announce whose passkey GetUser does not know returns with the failure
\* dict "Generic Error :(" written, and never gets to the update steps.
C1_UnknownPasskeyAnswered ==
    \A a \in Handlers :
        (pc[a] # "idle" /\ ~ann[a].err /\ passkey[a] \notin users)
            => /\ pc[a] = "done"
               /\ resp[a].written
               /\ resp[a].body = responseError("Generic Error :(")

\* C2: every failure response has HTTP status 200 and a body that is the
\* single-key dict {"failure reason": message of some code}.
C2_FailureIsStatus200 ==
    \A a \in Handlers :
        (pc[a] = "done" /\ resp[a].written /\ "failure reason" \in DOMAIN resp[a].body)
            => /\ resp[a].status = 200
               /\ DOMAIN resp[a].body = {"failure reason"}
               /\ \E code \in DOMAIN resp_msg : resp[a].body["failure reason"] = resp_msg[code]

\* C3: an announce of a known user with a whitelisted client for an infohash
\* without a torrent is answered with the info_hash_not_found message, and no
\* peer is created for that infohash.
C3_UnknownTorrentNotFound ==
    \A a \in Handlers :
        (/\ pc[a] = "done"
         /\ ~ann[a].err
         /\ passkey[a] \in users
         /\ IsValidClient(HKEYS(hkeysErr[a], whitelist), ann[a].PeerID)
         /\ ann[a].InfoHash \notin DOMAIN Torrents)
            => /\ resp[a].body = responseError(resp_msg[MSG_INFO_HASH_NOT_FOUND])
               /\ resp[a].body # responseError(resp_msg[MSG_GENERIC_ERROR])
               /\ SwarmOf(peers, ann[a].InfoHash) = <<>>

\* C4: the complete and incomplete values of a successful response are the
\* seeder and leecher counts of the swarm right after that announce's own add
\* or remove, whatever other announces run at the same time.
C4_ResponseCountsOwnMutation ==
    \A a \in Handlers :
        Succeeded(a)
            => /\ resp[a].body["complete"] = post[a].Seeders
               /\ resp[a].body["incomplete"] = post[a].Leechers

\* C5: the announce path never waits for the flush pipeline: a handler that
\* stands at one of its three sends can always take it, also when the channel
\* is full and nothing receives.
C5_SendNeverWaits ==
    \A a \in Handlers :
        /\ pc[a] = "sync_peer" => ENABLED SendPeer(a)
        /\ pc[a] = "sync_torrent" => ENABLED SendTorrent(a)
        /\ pc[a] = "sync_user" => ENABLED SendUser(a)

\* C6: every swarm holds at most one peer record for each PeerID.
C6_OnePeerPerID ==
    \A ih \in DOMAIN peers :
        \A i, j \in 1..Len(peers[ih]) :
            i # j => peers[ih][i].PeerID # peers[ih][j].PeerID

\* C7: after a successful announce the announcing peer is in the torrent's
\* peer set exactly when the event was not stopped: a stopped announce leaves
\* it removed and marked inactive, any other leaves it present and active.
C7_MemberIffNotStopped ==
    \A a \in Handlers :
        Succeeded(a)
            => IF ann[a].Event = STOPPED
               THEN /\ ~HasPeer(peers, ann[a].InfoHash, ann[a].PeerID)
                    /\ ann[a].PeerID \notin redisPeers[ann[a].InfoHash]
                    /\ <<ann[a].InfoHash, ann[a].PeerID>> \in redisInactive
               ELSE /\ HasPeer(peers, ann[a].InfoHash, ann[a].PeerID)
                    /\ ann[a].PeerID \in redisPeers[ann[a].InfoHash]
                    /\ peer[a].Active

\* C8: from every state the tracker reaches, the removal of a stopped announce
\* done twice for one (infohash, peer id) leaves the swarm, and so its seeder
\* and leecher counts, as the removal done once does; for an absent peer the
\* removal changes nothing.
C8_StopTwiceAsOnce ==
    \A ih \in InfoHashes, p \in PeerIDs :
        LET once == Delete(peers, ih, p)
            twice == Delete(once, ih, p)
        IN /\ twice = once
           /\ PeerCounts(twice, ih) = PeerCounts(once, ih)
           /\ ~HasPeer(peers, ih, p) => once = peers

\* C9: the response to a successful stopped announce has no peers entry, and
\* has complete, incomplete, interval and min interval.
C9_StoppedHasNoPeers ==
    \A a \in Handlers :
        (Succeeded(a) /\ ann[a].Event = STOPPED)
            => /\ "peers" \notin DOMAIN resp[a].body
               /\ {"complete", "incomplete", "interval", "min interval"} \subseteq DOMAIN resp[a].body

\* C10: when Reap returns, no swarm holds a peer that was expired when it
\* started, and every peer that was not expired is still there, unchanged and
\* once.
C10_ReapRemovesExpired ==
    reaped.done =>
        \A ih \in DOMAIN reaped.before :
            LET old == reaped.before[ih]
                kept == {i \in 1..Len(old) : ~Expired(old[i], reaped.at)}
            IN /\ \A j \in 1..Len(peers[ih]) : ~Expired(peers[ih][j], reaped.at)
               /\ \A i \in kept : \E j \in 1..Len(peers[ih]) : peers[ih][j] = old[i]
               /\ Len(peers[ih]) = Cardinality(kept)

\* C11: a second Reap right after a Reap, with no announce, Add, Delete or clock
\* change in between, leaves the peer store as the first Reap left it.
C11_ReapTwiceAsOnce == reaped.done => Reap(peers, reaped.at) = peers

\* C12: a TorrentStore.Add that takes effect while its infohash is in the store
\* returns ErrDuplicate and leaves the store as it was; one that finds it absent
\* returns nil and stores its torrent.  So of two concurrent Adds of one absent
\* infohash one returns ErrDuplicate, and Add never overwrites a torrent.
C12_AddNeverOverwrites ==
    tsLast.op = "Add" =>
        IF tsLast.ih \in DOMAIN tsLast.before
        THEN tsLast.err = "ErrDuplicate" /\ torrents = tsLast.before
        ELSE tsLast.err = "nil" /\ torrents[tsLast.ih] = tsLast.t

\* C13: Delete(ih, hard) with hard = false keeps the entry of a stored torrent
\* and sets its IsDeleted flag, so that a later Add of the infohash finds it;
\* with hard = true it removes the entry.
C13_SoftDeleteKeepsEntry ==
    tsLast.op = "Delete" =>
        IF tsLast.hard
        THEN tsLast.ih \notin DOMAIN torrents
        ELSE tsLast.ih \in DOMAIN tsLast.before
                => /\ tsLast.ih \in DOMAIN torrents
                   /\ torrents[tsLast.ih] = [tsLast.before[tsLast.ih] EXCEPT !.IsDeleted = TRUE]

\* C14: Get returns nil and writes the stored torrent into the caller's torrent
\* exactly when the infohash is in the store with IsDeleted false; otherwise it
\* returns ErrInvalidInfoHash and leaves the caller's torrent as it was.  Get
\* never changes the store.
C14_GetVisibleOnly ==
    tsLast.op = "Get" =>
        /\ torrents = tsLast.before
        /\ IF \E ih \in DOMAIN torrents : ih = tsLast.ih /\ torrents[ih].IsDeleted = FALSE
           THEN tsLast.err = "nil" /\ tsOut = torrents[tsLast.ih]
           ELSE tsLast.err = "ErrInvalidInfoHash" /\ tsOut = tsLast.outBefore

\* C14 witness: a Get of a soft-deleted torrent was turned down and left alone
\* the torrent an earlier Get had written.
C14_Witness ==
    /\ tsLast.op = "Get"
    /\ tsLast.ih \in DOMAIN torrents
    /\ torrents[tsLast.ih].IsDeleted
    /\ tsLast.err = "ErrInvalidInfoHash"
    /\ tsOut # ZeroTorrent
    /\ tsOut = tsLast.outBefore

\* a whitelist entry is a prefix of the peer id, character by character
Whitelisted(pid) ==
    \E i \in 1..Len(whitelist) :
        /\ Len(whitelist[i]) <= Len(pid)
        /\ \A k \in 1..Len(whitelist[i]) : whitelist[i][k] = pid[k]

\* C15: IsValidClient is true exactly when HKEYS succeeded and some whitelist
\* entry is a prefix of the peer id (so it is false for an empty whitelist and
\* when the whitelist cannot be read); an announce of a known user whose peer id
\* is not valid is answered with the failure "Peer ID Invalid", and no other is.
C15_ValidClientIffPrefix ==
    \A a \in Handlers :
        (pc[a] # "idle" /\ ~ann[a].err /\ passkey[a] \in users)
            => LET valid == ~hkeysErr[a] /\ Whitelisted(ann[a].PeerID)
               IN /\ IsValidClient(HKEYS(hkeysErr[a], whitelist), ann[a].PeerID) = valid
                  /\ whitelist = <<>> => ~IsValidClient(HKEYS(hkeysErr[a], whitelist), ann[a].PeerID)
                  /\ ~valid => /\ pc[a] = "done"
                               /\ resp[a].written
                               /\ resp[a].body = responseError("Peer ID Invalid")
                  /\ valid => resp[a].body # responseError("Peer ID Invalid")

\* C15 witness: the announce of a whitelisted client was turned down because
\* the whitelist could not be read, after another one of it had gone through.
C15_Witness ==
    /\ pc[1] = "done"
    /\ hkeysErr[1]
    /\ Whitelisted(ann[1].PeerID)
    /\ resp[1].body = responseError("Peer ID Invalid")
    /\ HasPeer(peers, ann[1].InfoHash, ann[1].PeerID)

\* the handler is past r.Flush()
Flushed(a) == pc[a] \in {"counts", "sync_peer", "sync_torrent", "sync_user", "respond"} \/ Succeeded(a)

\* C16: the request event is STARTED for event=started, STOPPED for
\* event=stopped, COMPLETED for event=completed and ANNOUNCE without an event
\* parameter; an announce with event=completed takes the COMPLETED branch, which
\* puts the torrent into the user's complete set.
C16_EventMapping ==
    \A a \in Handlers :
        (pc[a] # "idle" /\ ~ann[a].err)
            => /\ query[a].event = "started" => ann[a].Event = STARTED
               /\ query[a].event = "stopped" => ann[a].Event = STOPPED
               /\ query[a].event = "completed" => ann[a].Event = COMPLETED
               /\ query[a].event = "" => ann[a].Event = ANNOUNCE
               /\ (query[a].event = "completed" /\ Flushed(a))
                    => ann[a].InfoHash \in redisUser[passkey[a]].Complete

C18_LookupFailuresAlike ==
    usLast.op \in {"GetByPasskey", "GetByID"} =>
        /\ usLast.err \in {"nil", "ErrUnauthorized"}
        /\ usLast.err # "nil" => usOut = usLast.outBefore
        /\ (usLast.op = "GetByPasskey" /\ usLast.passkey \notin DOMAIN ustore)
                => usLast.err = "ErrUnauthorized"
        /\ (usLast.op = "GetByPasskey" /\ usLast.passkey \in DOMAIN ustore
                                       /\ ~ustore[usLast.passkey].Enabled)
                => usLast.err = "ErrUnauthorized" /\ usOut = usLast.outBefore
        /\ (usLast.op = "GetByID" /\ \A pk \in DOMAIN ustore : ustore[pk].UserID # usLast.userID)
                => usLast.err = "ErrUnauthorized"
        /\ usLast.err = "nil" => usOut.Enabled

\* C19: no UserStore call lowers the uploaded, downloaded or announce counter
\* of a user that is in the store before and after it.
C19_CountersNeverDecrease ==
    [][\A pk \in (DOMAIN ustore) \cap (DOMAIN ustore') :
            /\ ustore'[pk].Uploaded >= ustore[pk].Uploaded
            /\ ustore'[pk].Downloaded >= ustore[pk].Downloaded
            /\ ustore'[pk].Announces >= ustore[pk].Announces]_vars

\* the port parameters tried that are unsigned integers from 1024 to 65535
GoodPortParams ==
    {Param(<<"1", "0", "2", "4">>), Param(<<"6", "8", "8", "1">>),
     Param(<<"6", "5", "5", "3", "5">>)}

C21_LastAnnounceMonotone ==
    [][\A ih \in DOMAIN peers' :
          \A i \in 1..Len(peers'[ih]) :
             /\ peers'[ih][i].AnnounceLast >= peers'[ih][i].AnnounceFirst
             /\ (ih \in DOMAIN peers /\ i <= Len(peers[ih])
                                      /\ peers[ih][i].PeerID = peers'[ih][i].PeerID)
                    => peers'[ih][i].AnnounceLast >= peers[ih][i].AnnounceLast]_vars

\* the key-wise sum of two TorrentStore batches
SumTorrentBatches(b1, b2) ==
    [k \in (DOMAIN b1) \cup (DOMAIN b2) |->
        IF k \in DOMAIN b1 /\ k \in DOMAIN b2
        THEN [Uploaded |-> b1[k].Uploaded + b2[k].Uploaded,
              Downloaded |-> b1[k].Downloaded + b2[k].Downloaded,
              Snatches |-> b1[k].Snatches + b2[k].Snatches]
        ELSE IF k \in DOMAIN b1 THEN b1[k] ELSE b2[k]]

\* the key-wise sum of two UserStore batches
SumUserBatches(b1, b2) ==
    [k \in (DOMAIN b1) \cup (DOMAIN b2) |->
        IF k \in DOMAIN b1 /\ k \in DOMAIN b2
        THEN [Uploaded |-> b1[k].Uploaded + b2[k].Uploaded,
              Downloaded |-> b1[k].Downloaded + b2[k].Downloaded,
              Announces |-> b1[k].Announces + b2[k].Announces]
        ELSE IF k \in DOMAIN b1 THEN b1[k] ELSE b2[k]]

\* after is before with the deltas of b added to the torrents b names, no
\* torrent created and every other torrent as it was
TorrentDeltasAdded(before, after, b) ==
    /\ DOMAIN after = DOMAIN before
    /\ \A ih \in DOMAIN before :
          /\ after[ih].InfoHash = before[ih].InfoHash
          /\ after[ih].IsDeleted = before[ih].IsDeleted
          /\ after[ih].TotalUploaded
                = before[ih].TotalUploaded + (IF ih \in DOMAIN b THEN b[ih].Uploaded ELSE 0)
          /\ after[ih].TotalDownloaded
                = before[ih].TotalDownloaded + (IF ih \in DOMAIN b THEN b[ih].Downloaded ELSE 0)
          /\ after[ih].TotalCompleted
                = before[ih].TotalCompleted + (IF ih \in DOMAIN b THEN b[ih].Snatches ELSE 0)

\* the same for users
UserDeltasAdded(before, after, b) ==
    /\ DOMAIN after = DOMAIN before
    /\ \A pk \in DOMAIN before :
          /\ after[pk].Passkey = before[pk].Passkey
          /\ after[pk].UserID = before[pk].UserID
          /\ after[pk].Enabled = before[pk].Enabled
          /\ after[pk].Uploaded
                = before[pk].Uploaded + (IF pk \in DOMAIN b THEN b[pk].Uploaded ELSE 0)
          /\ after[pk].Downloaded
                = before[pk].Downloaded + (IF pk \in DOMAIN b THEN b[pk].Downloaded ELSE 0)
          /\ after[pk].Announces
                = before[pk].Announces + (IF pk \in DOMAIN b THEN b[pk].Announces ELSE 0)

\* C22: for every store the Adds and Syncs reach, a Sync of any batch adds the
\* deltas to the entries the batch names, creates none and leaves the others
\* as they were, and a Sync of b1 followed by a Sync of b2 gives the store that
\* one Sync of their key-wise sum gives; for the TorrentStore and the UserStore.
C22_SyncAddsDeltas ==
    /\ tsLast.op = "Sync" => DOMAIN torrents = DOMAIN tsLast.before
    /\ \A b \in TorrentBatches : TorrentDeltasAdded(torrents, TorrentStoreSync(torrents, b), b)
    /\ \A b1, b2 \in TorrentBatches :
          TorrentStoreSync(TorrentStoreSync(torrents, b1), b2)
            = TorrentStoreSync(torrents, SumTorrentBatches(b1, b2))
    /\ \A b \in UserBatches : UserDeltasAdded(ustore, UserStoreSync(ustore, b), b)
    /\ \A b1, b2 \in UserBatches :
          UserStoreSync(UserStoreSync(ustore, b1), b2)
            = UserStoreSync(ustore, SumUserBatches(b1, b2))

\* C22 witness: a Sync has returned that left a torrent with the deltas of two
\* batches, in a store without the other infohash.
C22_Witness ==
    /\ tsLast.op = "Sync"
    /\ "ihA" \in DOMAIN torrents
    /\ "ihB" \notin DOMAIN torrents
    /\ torrents["ihA"].TotalUploaded >= 2
    /\ torrents["ihA"].TotalCompleted >= 1

\* C23: a WhiteListDelete that finds an entry with the client's prefix returns
\* nil and leaves no entry with that prefix, the other entries in their order;
\* one that finds none returns ErrInvalidClient and leaves the list as it was.
C23_DeleteRemovesPrefix ==
    wlLast.op = "Delete" =>
        LET Others(c) == c.ClientPrefix # wlLast.prefix
            view == ListView(tsWhitelist)
        IN IF \E i \in 1..Len(wlLast.before) : wlLast.before[i].ClientPrefix = wlLast.prefix
           THEN /\ wlLast.err = "nil"
                /\ \A i \in 1..Len(view) : view[i].ClientPrefix # wlLast.prefix
                /\ view = SelectSeq(wlLast.before, Others)
           ELSE /\ wlLast.err = "ErrInvalidClient"
                /\ view = wlLast.before

\* C25: the slice WhiteListGetAll returned reads as it did when it was returned
\* for as long as the whitelist still lives in the array the slice points into,
\* and so does the slice PeerStore.GetN returned for as long as no Add has
\* lengthened the swarm it was cut from.
C25_SnapshotsStable ==
    /\ (wlSnap.taken /\ wlSnap.gen = tsWhitelist.gen)
          => SubSeq(tsWhitelist.arr, 1, wlSnap.len) = wlSnap.seen
    /\ (snapN.taken /\ Len(SwarmOf(peers, snapN.ih)) = snapN.stored)
          => SubSeq(peers[snapN.ih], 1, snapN.len) = snapN.seen

\* what handler a holds of its request
Local(a) ==
    <<pc[a], ann[a], passkey[a], peer[a], resp[a], post[a], query[a], hkeysErr[a], peerErr[a]>>

\* handler a has returned without the announce response: with one of the
\* failure responses, or in the panic of the unknown passkey
Failed(a) == pc[a] \in {"done", "aborted"} /\ ~Succeeded(a)

\* C24: the step in which a handler takes a request and ends it in a failure
\* changes neither the swarms, the torrents, the users and their redis sets,
\* nor any of the three sync queues.
C24_FailureChangesNothing ==
    [][\A a \in Handlers :
          (pc[a] \in Returned /\ Local(a)' # Local(a) /\ Failed(a)')
              => UNCHANGED <<peers, Torrents, users, redisVars, queueVars>>]_vars

\* C24 witness: an announce came back with the failure of the peer lookup
\* while the swarm of its torrent held a peer and a sync queue an entry.
C24_Witness ==
    /\ pc[1] = "done"
    /\ peerErr[1]
    /\ resp[1] = oops(MSG_GENERIC_ERROR)
    /\ SwarmOf(peers, ann[1].InfoHash) # <<>>
    /\ sync_user # <<>>

====
